---- MODULE Spec2Model ----
(***************************************************************************)
(* Register allocator of the lightning back-end (src/ir/mopt_ralloc.cpp)   *)
(* and the ABI descriptor it consumes (include/ir/arch.hpp).               *)
(*                                                                         *)
(* allocate_registers is modelled as a sequential state machine: one step  *)
(* per phase of the function, and one step per call / return of the        *)
(* recursive try_color.                                                    *)
(***************************************************************************)
EXTENDS Integers, Sequences, FiniteSets, TLC

(***************************************************************************)
(* Bounds of the explored inputs.                                          *)
(***************************************************************************)
\* The mutually-live families go up to (number of registers + MaxExtra).
MaxExtra == 2
\* Largest argument index handed to map_argument.
MaxArgIdx == 7
\* Largest colour budget handed to try_color on its own.
MaxBudget == 4
\* Longest instruction stream the spill rewriter is still run on.
MaxInsns == 40

(***************************************************************************)
(* Small helpers.                                                          *)
(***************************************************************************)
Range(s) == {s[i] : i \in 1..Len(s)}

SetMax(S) == CHOOSE x \in S : \A y \in S : y <= x

SetMin(S) == CHOOSE x \in S : \A y \in S : x <= y

Max2(a, b) == IF a >= b THEN a ELSE b

Min2(a, b) == IF a <= b THEN a ELSE b

\* TRUE for every value.  TLC evaluates operator arguments and LET
\* definitions on demand; testing Strict(x) before x is passed on makes it
\* compute x at that point, which keeps the evaluation of the folds flat.
Strict(x) == x = x

\* The two halves of a sequence of two or more elements.  The loops over
\* instruction lists below are folded half by half, in list order, the
\* result of the half done first being evaluated before the other starts.
FirstHalf(s) == SubSeq(s, 1, Len(s) \div 2)

SecondHalf(s) == SubSeq(s, (Len(s) \div 2) + 1, Len(s))

(***************************************************************************)
(* ABI descriptors (arch.hpp).  Native registers are named by strings;     *)
(* the tables are the C arrays, 1-indexed here.                            *)
(***************************************************************************)
invalid == "NO_REG"

ABI_MS64 ==
  [name |-> "MS64",
   gp_nonvolatile |-> <<"RBP", "RSI", "RDI", "RBX", "R12", "R13", "R14", "R15">>,
   gp_volatile    |-> <<"RAX", "RCX", "RDX", "R8", "R9", "R10", "R11">>,
   gp_argument    |-> <<"RCX", "RDX", "R8", "R9">>,
   fp_nonvolatile |-> <<"XMM6", "XMM7", "XMM8", "XMM9", "XMM10", "XMM11",
                        "XMM12", "XMM13", "XMM14", "XMM15">>,
   fp_volatile    |-> <<"XMM0", "XMM1", "XMM2", "XMM3", "XMM4", "XMM5">>,
   fp_argument    |-> <<"XMM0", "XMM1", "XMM2", "XMM3">>,
   sp |-> "RSP",
   combined_arg_counter |-> TRUE]

ABI_SYSV64 ==
  [name |-> "SYSV64",
   gp_nonvolatile |-> <<"RBP", "RBX", "R12", "R13", "R14", "R15">>,
   gp_volatile    |-> <<"RAX", "RDI", "RSI", "RDX", "RCX", "R8", "R9", "R10", "R11">>,
   gp_argument    |-> <<"RDI", "RSI", "RDX", "RCX", "R8", "R9">>,
   fp_nonvolatile |-> << >>,
   fp_volatile    |-> <<"XMM0", "XMM1", "XMM2", "XMM3", "XMM4", "XMM5", "XMM6",
                        "XMM7", "XMM8", "XMM9", "XMM10", "XMM11", "XMM12",
                        "XMM13", "XMM14", "XMM15">>,
   fp_argument    |-> <<"XMM0", "XMM1", "XMM2", "XMM3", "XMM4", "XMM5", "XMM6", "XMM7">>,
   sp |-> "RSP",
   combined_arg_counter |-> FALSE]

\* The descriptor of the widening scenario: 8 GP registers, 3 of them
\* volatile; 4 FP registers, 2 of them volatile.
ABI_SMALL ==
  [name |-> "SMALL",
   gp_nonvolatile |-> <<"RBX", "RBP", "R12", "R13", "R14">>,
   gp_volatile    |-> <<"RAX", "RCX", "RDX">>,
   gp_argument    |-> <<"RCX", "RDX", "RAX">>,
   fp_nonvolatile |-> <<"XMM2", "XMM3">>,
   fp_volatile    |-> <<"XMM0", "XMM1">>,
   fp_argument    |-> <<"XMM0", "XMM1">>,
   sp |-> "RSP",
   combined_arg_counter |-> FALSE]

ABIs == {ABI_MS64, ABI_SYSV64, ABI_SMALL}

num_gp_reg(a) == Len(a.gp_volatile) + Len(a.gp_nonvolatile)

num_fp_reg(a) == Len(a.fp_volatile) + Len(a.fp_nonvolatile)

\* C index k of the array is element k+1 of this sequence.
virtual_to_native_map(a) ==
  a.fp_nonvolatile \o a.fp_volatile \o <<invalid>> \o a.gp_volatile \o a.gp_nonvolatile

to_native(a, i) ==
  LET j == i + num_fp_reg(a)
      m == virtual_to_native_map(a)
  IN  IF 0 <= j /\ j < Len(m) THEN m[j + 1] ELSE invalid

from_native(a, n) ==
  LET m    == virtual_to_native_map(a)
      hits == {r \in 0..(Len(m) - 1) : m[r + 1] = n}
  IN  IF hits = {} THEN 0 ELSE SetMin(hits) - num_fp_reg(a)

\* Numeric value of a native register enumerator when it is converted to
\* the internal int32 register type: NO_REG is 0; every other enumerator
\* of the 64-bit register file is an ordinal far above the table range.
NativeOrdinal(a, n) ==
  IF n = invalid THEN 0
  ELSE LET m == virtual_to_native_map(a)
           p == IF n \in Range(m) THEN SetMin({k \in 1..Len(m) : m[k] = n}) ELSE 0
       IN  Len(m) + 1 + p

\* Result of the read tab[idx] that map_argument_native performs.
OutOfBounds == "OUT_OF_BOUNDS"

map_argument_native(a, gp_arg_index, fp_arg_index, fp) ==
  LET tab == IF fp THEN a.fp_argument ELSE a.gp_argument
      idx == IF a.combined_arg_counter THEN gp_arg_index + fp_arg_index
             ELSE IF fp THEN fp_arg_index ELSE gp_arg_index
  IN  IF Len(tab) < idx THEN OutOfBounds ELSE invalid

\* map_argument passes the native register to to_native and returns the
\* native register that comes back as an internal index; the set holds
\* every value the call can return.  A read past the table yields an
\* arbitrary value x, for which to_native gives any element of the map.
map_argument(a, gp_arg_index, fp_arg_index, fp) ==
  LET n == map_argument_native(a, gp_arg_index, fp_arg_index, fp)
  IN  IF n = OutOfBounds
        THEN {NativeOrdinal(a, to_native(a, x)) :
                x \in (-num_fp_reg(a) - 1)..(num_gp_reg(a) + 1)}
        ELSE {NativeOrdinal(a, to_native(a, NativeOrdinal(a, n)))}

(***************************************************************************)
(* Machine registers (mreg).  A register is identified by its uid:         *)
(*   uid = 4 * id + class, class 0 = physical GP, 1 = physical FP,         *)
(*                               2 = virtual GP,  3 = virtual FP.          *)
(* uid 0 is the null register; virtual id 0 is the flag register of the    *)
(* class; virtual ids 1 .. vreg_first-1 are the reserved virtuals.         *)
(***************************************************************************)
vreg_first == 4

PhysGP(i) == 4 * i

PhysFP(i) == 4 * i + 1

VirtGP(i) == 4 * i + 2

VirtFP(i) == 4 * i + 3

vreg_vm == VirtGP(1)

vreg_tos == VirtGP(2)

vreg_nargs == VirtGP(3)

is_null(r) == r = 0

is_virt(r) == r % 4 >= 2 /\ r \div 4 > 0

virt(r) == IF r % 4 >= 2 THEN r \div 4 ELSE 0

is_flag(r) == r % 4 >= 2 /\ r \div 4 = 0

is_phys(r) == r % 4 < 2 /\ r \div 4 > 0

is_fp(r) == r % 2 = 1

\* Signed physical index: FP < 0 < GP.
phys(r) == IF r % 4 = 0 THEN r \div 4 ELSE IF r % 4 = 1 THEN -(r \div 4) ELSE 0

\* mreg built from an internal register index (arch::reg).
mreg_of_reg(x) == IF x > 0 THEN PhysGP(x) ELSE IF x < 0 THEN PhysFP(-x) ELSE 0

is_pseudo(r) == is_flag(r) \/ (is_virt(r) /\ virt(r) > 0 /\ virt(r) < vreg_first)

interferes_with(a, b) ==
  IF is_pseudo(a) \/ is_pseudo(b) THEN FALSE
  ELSE IF is_fp(a) # is_fp(b) THEN FALSE
  ELSE TRUE

(***************************************************************************)
(* Instructions (minsn): an opcode, an output register (0 = none) and up   *)
(* to four operands, each a register, an immediate or a memory reference.  *)
(***************************************************************************)
Reg(r) == [t |-> "reg", reg |-> r, disp |-> 0]

Imm(v) == [t |-> "imm", reg |-> 0, disp |-> v]

Mem(b, d) == [t |-> "mem", reg |-> b, disp |-> d]

minsn(op, out, args) == [op |-> op, out |-> out, arg |-> args]

is_mov(i) == i.op = "movi" \/ i.op = "movf"

is_reg_mov(i) == is_mov(i) /\ Len(i.arg) >= 1 /\ i.arg[1].t = "reg"

is_memop(i) == i.op \in {"loadi64", "storei64", "loadf64", "storef64"}

\* The operand slots for_each_reg visits, in visiting order: the register
\* of every operand (a memory operand's base register), then out (slot 0).
RECURSIVE ArgSlots(_, _)
ArgSlots(i, k) ==
  IF k > Len(i.arg) THEN << >>
  ELSE (IF i.arg[k].t \in {"reg", "mem"} /\ ~is_null(i.arg[k].reg) THEN <<k>> ELSE << >>)
       \o ArgSlots(i, k + 1)

RegSlots(i) == ArgSlots(i, 1) \o (IF is_null(i.out) THEN << >> ELSE <<0>>)

SlotReg(i, k) == IF k = 0 THEN i.out ELSE i.arg[k].reg

SlotIsRead(k) == k # 0

SetSlot(i, k, r) ==
  IF k = 0 THEN [i EXCEPT !.out = r] ELSE [i EXCEPT !.arg[k].reg = r]

\* Registers visited by for_each_reg, as a set, and those visited as reads.
RegsOf(i) == {SlotReg(i, k) : k \in Range(RegSlots(i))}

ReadsOf(i) == {SlotReg(i, k) : k \in Range(ArgSlots(i, 1))}

\* Every register for_each_reg visits is replaced by its image under the
\* function f, whose domain holds the registers of i.
MapRegs(i, f) ==
  [op  |-> i.op,
   out |-> IF is_null(i.out) THEN i.out ELSE f[i.out],
   arg |-> [k \in 1..Len(i.arg) |->
              IF i.arg[k].t \in {"reg", "mem"} /\ ~is_null(i.arg[k].reg)
                THEN [i.arg[k] EXCEPT !.reg = f[i.arg[k].reg]]
                ELSE i.arg[k]]]

\* All instructions of a procedure, block after block.
RECURSIVE AllInsns(_, _)
AllInsns(bbs, b) ==
  IF b > Len(bbs) THEN << >> ELSE bbs[b].insns \o AllInsns(bbs, b + 1)

ProcRegs(bbs) == UNION {RegsOf(AllInsns(bbs, 1)[k]) : k \in 1..Len(AllInsns(bbs, 1))}


(***************************************************************************)
(* build_graph: use counts, def/ref, liveness fixed point, graph nodes,    *)
(* coalescing hints and interference edges.                                *)
(***************************************************************************)
RA_PRIO_HOT_BIAS == 12

NumHints == 4

\* Contribution of one instruction to reg_use_counter[u].
RECURSIVE UseCountSlots(_, _, _)
UseCountSlots(i, slots, u) ==
  IF slots = << >> THEN 0
  ELSE (IF SlotReg(i, Head(slots)) = u
          THEN (IF SlotIsRead(Head(slots)) THEN 1 ELSE 0) + (IF is_memop(i) THEN 100 ELSE 0)
          ELSE 0)
       + UseCountSlots(i, Tail(slots), u)

RECURSIVE UseCount(_, _)
UseCount(is, u) ==
  IF is = << >> THEN 0
  ELSE IF Len(is) = 1 THEN UseCountSlots(is[1], RegSlots(is[1]), u)
  ELSE UseCount(FirstHalf(is), u) + UseCount(SecondHalf(is), u)

\* max_reg_id after the final increment: the number of graph nodes.
MaxRegId(bbs) == SetMax(ProcRegs(bbs) \cup {0}) + 1

\* def(n) and ref(n) of one block, visiting the registers in order.
RECURSIVE DefRefSlots(_, _, _)
DefRefSlots(i, slots, dr) ==
  IF slots = << >> THEN dr
  ELSE LET r == SlotReg(i, Head(slots))
           nx == IF is_pseudo(r) THEN dr
                 ELSE IF SlotIsRead(Head(slots))
                        THEN (IF r \in dr.def THEN dr ELSE [dr EXCEPT !.ref = @ \cup {r}])
                        ELSE [dr EXCEPT !.def = @ \cup {r}]
       IN  DefRefSlots(i, Tail(slots), nx)

RECURSIVE DefRef(_, _)
DefRefFrom(is, nx) == IF Strict(nx) THEN DefRef(is, nx) ELSE nx

DefRef(is, dr) ==
  IF is = << >> THEN dr
  ELSE IF Len(is) = 1 THEN DefRefSlots(is[1], RegSlots(is[1]), dr)
  ELSE DefRefFrom(SecondHalf(is), DefRef(FirstHalf(is), dr))

\* Variant: the definitions of the block are not taken out.
NewLiveKeepDef(bbs, dr, inl, b) ==
  (UNION {inl[s] : s \in Range(bbs[b].succ)}) \cup dr[b].ref

\* new_live of block b, given the in-live vector inl.
NewLive(bbs, dr, inl, b) ==
  ((UNION {inl[s] : s \in Range(bbs[b].succ)}) \ dr[b].def) \cup dr[b].ref

\* One pass of the do-while body over the blocks b..Len(bbs); inl is the
\* in-live vector, updated in place block by block.
RECURSIVE LiveSweep(_, _, _, _)
LiveSweepFrom(bbs, dr, nx, b) == IF Strict(nx) THEN LiveSweep(bbs, dr, nx, b) ELSE nx

LiveSweep(bbs, dr, inl, b) ==
  IF b > Len(bbs) THEN inl
  ELSE LiveSweepFrom(bbs, dr, [inl EXCEPT ![b] = NewLive(bbs, dr, inl, b)], b + 1)

\* The loop runs until a pass changes nothing.
RECURSIVE LiveFix(_, _, _)
LiveFixFrom(bbs, dr, inl, nx) == IF nx = inl THEN inl ELSE LiveFix(bbs, dr, nx)

LiveFix(bbs, dr, inl) == LiveFixFrom(bbs, dr, inl, LiveSweep(bbs, dr, inl, 1))

\* "Convert to out-live."
OutLive(bbs, inl) == [b \in 1..Len(bbs) |-> UNION {inl[s] : s \in Range(bbs[b].succ)}]

LivenessOf(bbs, dr) ==
  [def      |-> [b \in 1..Len(bbs) |-> dr[b].def],
   ref      |-> [b \in 1..Len(bbs) |-> dr[b].ref],
   in_live  |-> LiveFix(bbs, dr, [b \in 1..Len(bbs) |-> {}]),
   out_live |-> OutLive(bbs, LiveFix(bbs, dr, [b \in 1..Len(bbs) |-> {}]))]

LivenessFrom(bbs, dr) == IF Strict(dr) THEN LivenessOf(bbs, dr) ELSE dr

Liveness(bbs) == LivenessFrom(bbs, [b \in 1..Len(bbs) |-> DefRef(bbs[b].insns, [def |-> {}, ref |-> {}])])

\* The node of register uid i before any edge is added.
InitNode(bbs, i) ==
  [vtx              |-> {i},
   priority         |-> (UseCount(AllInsns(bbs, 1), i) + 1) * RA_PRIO_HOT_BIAS,
   coalescing_hints |-> [k \in 1..NumHints |-> 0],
   hint_id          |-> 0,
   color            |-> IF ~is_phys(i) THEN 0 ELSE IF phys(i) < 0 THEN -phys(i) ELSE phys(i),
   is_fp            |-> is_fp(i),
   spill_slot       |-> 0]

\* graph_node::add_hint, called on node a with a pointer to node g.
add_hint(gr, a, g) ==
  [gr EXCEPT ![a].coalescing_hints[(gr[a].hint_id % NumHints) + 1] = g - a,
             ![a].hint_id = (gr[a].hint_id + 1) % 256]

\* add_set(b, def) for every def in D: an edge between def and every
\* register of the set b that interferes with it.
add_set(gr, b, D) ==
  [u \in DOMAIN gr |->
     [gr[u] EXCEPT !.vtx = @ \cup {l \in b : u \in D /\ interferes_with(u, l)}
                             \cup {d \in D : u \in b /\ interferes_with(d, u)}]]

\* The hints of a register move.
GraphHints(gr, i) ==
  IF is_reg_mov(i)
    THEN add_hint(add_hint(gr, i.arg[1].reg, i.out), i.out, i.arg[1].reg)
    ELSE gr

\* The definition: out leaves the live set and interferes with the rest.
GraphDef(gr, live, i) ==
  IF is_null(i.out) THEN [gr |-> gr, live |-> live]
  ELSE [gr |-> add_set(gr, live \ {i.out}, {i.out}), live |-> live \ {i.out}]

\* The reads: they join the live set, then interfere with all of it.
GraphReads(gr, live, i) == [gr |-> add_set(gr, live, ReadsOf(i)), live |-> live]

\* One instruction of the reverse walk; st = [gr, live].
GraphInsnFrom(d, i) == GraphReads(d.gr, d.live \cup ReadsOf(i), i)

GraphInsn(st, i) == GraphInsnFrom(GraphDef(GraphHints(st.gr, i), st.live, i), i)

\* The instructions is of a block, walked from the last to the first.
RECURSIVE GraphBlock(_, _)
GraphBlockFrom(nx, is) == IF Strict(nx) THEN GraphBlock(nx, is) ELSE nx

GraphBlock(st, is) ==
  IF is = << >> THEN st
  ELSE IF Len(is) = 1 THEN GraphInsn(st, is[1])
  ELSE GraphBlockFrom(GraphBlock(st, SecondHalf(is)), FirstHalf(is))

RECURSIVE GraphBlocks(_, _, _, _)
GraphBlocksFrom(nx, bbs, lv, b) == IF Strict(nx) THEN GraphBlocks(nx, bbs, lv, b) ELSE nx

GraphBlocks(gr, bbs, lv, b) ==
  IF b > Len(bbs) THEN gr
  ELSE GraphBlocksFrom(GraphBlock([gr |-> gr, live |-> lv.out_live[b]], bbs[b].insns).gr,
                       bbs, lv, b + 1)

GraphOf(bbs, lv) ==
  [graph |-> GraphBlocks([i \in 0..(MaxRegId(bbs) - 1) |-> InitNode(bbs, i)], bbs, lv, 1),
   df    |-> lv]

GraphFrom(bbs, lv) == IF Strict(lv) THEN GraphOf(bbs, lv) ELSE lv

build_graph(bbs) == GraphFrom(bbs, Liveness(bbs))


(***************************************************************************)
(* try_color: the pieces of one activation.                                *)
(***************************************************************************)
NoNode == -1

\* Number of colours the node's class may use.
Limit(gr, n, K, M) == IF gr[n].is_fp THEN M ELSE K

\* popcount(vtx) - 1
Degree(gr, n) == Cardinality(gr[n].vtx) - 1

\* Nodes the scan does not skip: uncoloured, with a non-empty bitset.
Candidates(gr) == {n \in DOMAIN gr : gr[n].color = 0 /\ Cardinality(gr[n].vtx) # 0}

OverLimit(gr, n, K, M) == Degree(gr, n) > Limit(gr, n, K, M)

\* The node the scan ends with: the first candidate that is not over the
\* limit, else the first over-limit candidate of minimum priority, else none.
PickNode(gr, K, M) ==
  LET cand == Candidates(gr)
      ok   == {n \in cand : ~OverLimit(gr, n, K, M)}
      low  == {n \in cand : \A o \in cand : gr[n].priority <= gr[o].priority}
  IN  IF ok # {} THEN SetMin(ok)
      ELSE IF cand = {} THEN NoNode
      ELSE SetMin(low)

\* Variant: the bitset is swapped out, the other nodes are left alone.
RemoveNodeOneSided(gr, it) == [gr EXCEPT ![it].vtx = {}]

\* "Remove from the graph": it's bitset is swapped out into tmp and its bit
\* is cleared in every node tmp names.
RemoveNode(gr, it) ==
  [u \in DOMAIN gr |->
     IF u = it THEN [gr[u] EXCEPT !.vtx = {}]
     ELSE IF u \in gr[it].vtx THEN [gr[u] EXCEPT !.vtx = @ \ {it}]
     ELSE gr[u]]

\* "Add the node back".
RestoreNode(gr, it, tmp) ==
  [u \in DOMAIN gr |->
     IF u = it THEN [gr[u] EXCEPT !.vtx = tmp]
     ELSE IF u \in tmp THEN [gr[u] EXCEPT !.vtx = @ \cup {it}]
     ELSE gr[u]]

\* Variant: only the virtual neighbours are looked at.
NeighbourColorsVirt(gr, it, tmp) ==
  {gr[i].color : i \in {j \in tmp : j # it /\ gr[j].color # 0 /\ is_virt(j)}}

\* Colours of the coloured neighbours named by tmp.
NeighbourColors(gr, it, tmp) == {gr[i].color : i \in {j \in tmp : j # it /\ gr[j].color # 0}}

\* color_mask as the set of its set bits (bit b stands for colour b+1).
color_mask(gr, it, tmp) == {b \in 0..63 : (b + 1) \notin NeighbourColors(gr, it, tmp)}

countr_zero(mask) == IF mask = {} THEN 64 ELSE SetMin(mask)

\* Variant: the hints are never looked at.
HintColorNone(gr, it, mask, k) == 0

\* The colour adopted from the coalescing hints k..NumHints, 0 if none.
RECURSIVE HintColor(_, _, _, _)
HintColor(gr, it, mask, k) ==
  IF k > NumHints THEN 0
  ELSE LET hint_off == gr[it].coalescing_hints[k]
       IN  IF hint_off # 0 /\ gr[it + hint_off].color # 0
              /\ (gr[it + hint_off].color - 1) \in mask
             THEN gr[it + hint_off].color
             ELSE HintColor(gr, it, mask, k + 1)

\* Variant: the first slot is taken whatever the neighbours hold.
FindSpillSlotFirst(gr, it, s) == s

\* "Find spill slot": the do-while loop started with slot s.
RECURSIVE FindSpillSlot(_, _, _)
FindSpillSlot(gr, it, s) ==
  IF \E i \in DOMAIN gr : gr[i].spill_slot = s /\ i # it /\ it \in gr[i].vtx
    THEN FindSpillSlot(gr, it, s + 1)
    ELSE s

\* TRUE when the node gets no colour and is spilled.
MustSpill(n, lim) == n > lim

\* Variant: every spill is counted as a GP spill.
CountSpillGp(rec, fp) == [rec EXCEPT !.gp = @ + 1]

\* The spill counters after one more spill of the node's class.
CountSpill(rec, fp) ==
  IF fp THEN [rec EXCEPT !.fp = @ + 1] ELSE [rec EXCEPT !.gp = @ + 1]

\* The part of try_color after the node was added back: gr is the restored
\* graph, hc the colour the hints gave (0 = none), n = countr_zero(mask),
\* rec = [gp, fp] what the recursive call returned.  The result is the
\* graph and the pair this activation returns.
ColorWith(gr, it, K, M, rec, hc, n) ==
  IF hc # 0
    THEN [graph |-> [gr EXCEPT ![it].color = hc], ret |-> rec]
  ELSE IF MustSpill(n, Limit(gr, it, K, M))
    THEN [graph |-> [gr EXCEPT ![it].color = 0,
                               ![it].spill_slot = FindSpillSlot(gr, it, 1)],
          ret   |-> CountSpill(rec, gr[it].is_fp)]
  ELSE [graph |-> [gr EXCEPT ![it].color = n + 1], ret |-> rec]

\* The part of try_color after the recursive call returned.
ColorNode(gr0, it, tmp, K, M, rec) ==
  ColorWith(RestoreNode(gr0, it, tmp), it, K, M, rec,
            HintColor(RestoreNode(gr0, it, tmp), it, color_mask(gr0, it, tmp), 1),
            countr_zero(color_mask(gr0, it, tmp)))

(***************************************************************************)
(* spill_args                                                              *)
(***************************************************************************)
\* Index into regs[] of a reserved register, 0 for any other register.
ReservedIndex(r) ==
  IF r = vreg_vm THEN 1 ELSE IF r = vreg_tos THEN 2 ELSE IF r = vreg_nargs THEN 3 ELSE 0

VirtOfCounter(fp, id) == IF fp THEN VirtFP(id) ELSE VirtGP(id)

\* The scan over the registers in visiting order; st = [regs, next_gp].
RECURSIVE ArgScanSlots(_, _, _)
ArgScanSlots(i, slots, st) ==
  IF slots = << >> THEN st
  ELSE LET x == ReservedIndex(SlotReg(i, Head(slots)))
       IN  ArgScanSlots(i, Tail(slots),
             IF x # 0 /\ is_null(st.regs[x])
               THEN [regs |-> [st.regs EXCEPT ![x] = VirtGP(st.next_gp)],
                     next_gp |-> st.next_gp + 1]
               ELSE st)

RECURSIVE ArgScan(_, _)
ArgScanFrom(is, nx) == IF Strict(nx) THEN ArgScan(is, nx) ELSE nx

ArgScan(is, st) ==
  IF is = << >> THEN st
  ELSE IF Len(is) = 1 THEN ArgScanSlots(is[1], RegSlots(is[1]), st)
  ELSE ArgScanFrom(SecondHalf(is), ArgScan(FirstHalf(is), st))

ArgReplace(regs, r) == IF ReservedIndex(r) # 0 THEN regs[ReservedIndex(r)] ELSE r

\* The moves inserted at the front of the entry block; src[i] is the value
\* map_argument returned for regs[i].  Each is inserted at begin(), so the
\* move of the last register comes first.
RECURSIVE ArgMoves(_, _, _)
ArgMoves(regs, src, i) ==
  IF i = 0 THEN << >>
  ELSE (IF is_null(regs[i]) THEN << >>
        ELSE <<minsn("movi", regs[i], <<Reg(mreg_of_reg(src[i]))>>)>>)
       \o ArgMoves(regs, src, i - 1)

\* The procedure with every reserved register replaced.
ArgReplaceAll(bbs, regs) ==
  [b \in 1..Len(bbs) |->
     [bbs[b] EXCEPT !.insns = [k \in 1..Len(bbs[b].insns) |->
                                 MapRegs(bbs[b].insns[k],
                                         [r \in RegsOf(bbs[b].insns[k]) |-> ArgReplace(regs, r)])]]]

ArgResult(bbs, st, src) ==
  [blocks  |-> [ArgReplaceAll(bbs, st.regs) EXCEPT ![1].insns = ArgMoves(st.regs, src, 3) \o @],
   next_gp |-> st.next_gp,
   regs    |-> st.regs]

spill_args(bbs, ngp, src) ==
  ArgResult(bbs, ArgScan(AllInsns(bbs, 1), [regs |-> <<0, 0, 0>>, next_gp |-> ngp]), src)


(***************************************************************************)
(* The spill rewriter of allocate_registers.                               *)
(***************************************************************************)
ReloadCap == 4

SpillCap == 1

\* TRUE when the visitor hands the register at this slot to spill_and_swap.
NeedsSwap(gr, r) ==
  /\ ~(is_pseudo(r) \/ ~is_virt(r))
  /\ ~(Cardinality(DOMAIN gr) <= r)
  /\ gr[r].spill_slot # 0

\* The entry spill_and_swap fills for register m.
NewEntry(st, m, slot, slot_offset) ==
  [src  |-> m,
   dst  |-> VirtOfCounter(is_fp(m), IF is_fp(m) THEN st.next_fp ELSE st.next_gp),
   slot |-> slot + slot_offset - 1]

\* The first entry of the list whose src is m, 0 if there is none.
EntryOf(list, m) ==
  IF \E k \in 1..Len(list) : list[k].src = m
    THEN SetMin({k \in 1..Len(list) : list[k].src = m})
    ELSE 0

\* spill_and_swap on the register at slot k of st.insn, with the reload
\* list when rd and the spill list otherwise; hit is the entry that holds
\* the register already, e the entry to fill.
\* st = [insn, reload, spill, next_gp, next_fp, nss, need_cg].
SwapWith(st, k, rd, list, cap, hit, e) ==
  IF hit # 0
    THEN [st EXCEPT !.insn = SetSlot(st.insn, k, list[hit].dst), !.need_cg = TRUE]
  ELSE IF Len(list) < cap
    THEN [insn    |-> SetSlot(st.insn, k, e.dst),
          reload  |-> IF rd THEN Append(list, e) ELSE st.reload,
          spill   |-> IF rd THEN st.spill ELSE Append(list, e),
          next_gp |-> IF is_fp(e.src) THEN st.next_gp ELSE st.next_gp + 1,
          next_fp |-> IF is_fp(e.src) THEN st.next_fp + 1 ELSE st.next_fp,
          nss     |-> Max2(st.nss, e.slot + 1),
          need_cg |-> TRUE]
  ELSE [st EXCEPT !.need_cg = TRUE]

spill_and_swap(st, k, m, rd, list, cap, slot, slot_offset) ==
  SwapWith(st, k, rd, list, cap, EntryOf(list, m), NewEntry(st, m, slot, slot_offset))

\* The visitor at slot k.
SwapSlot(gr, st, k, r, slot_offset) ==
  IF ~NeedsSwap(gr, r) THEN st
  ELSE IF SlotIsRead(k)
    THEN spill_and_swap(st, k, r, TRUE, st.reload, ReloadCap, gr[r].spill_slot, slot_offset)
    ELSE spill_and_swap(st, k, r, FALSE, st.spill, SpillCap, gr[r].spill_slot, slot_offset)

\* The visitor over one instruction.
RECURSIVE SwapSlots(_, _, _, _)
SwapSlots(gr, slots, st, slot_offset) ==
  IF slots = << >> THEN st
  ELSE SwapSlots(gr, Tail(slots),
                 SwapSlot(gr, st, Head(slots), SlotReg(st.insn, Head(slots)), slot_offset),
                 slot_offset)

\* The load or store synthesized for one entry.
ReloadInsn(a, e) ==
  minsn(IF is_fp(e.src) THEN "loadf64" ELSE "loadi64", e.dst,
        <<Mem(mreg_of_reg(from_native(a, a.sp)), e.slot * 8)>>)

SpillInsn(a, e) ==
  minsn(IF is_fp(e.src) THEN "storef64" ELSE "storei64", 0,
        <<Mem(mreg_of_reg(from_native(a, a.sp)), e.slot * 8), Reg(e.dst)>>)

\* The iterations of the loop that visit instruction i, until the iterator
\* moves past it; st = [insns, next_gp, next_fp, nss], insns being the part
\* of the list the iterator has left behind, r the visitor's result.  With
\* reloads only, the iterator is left on the instruction, which is visited
\* again; with a spill it is left behind the store.
RECURSIVE RewriteInsn(_, _, _, _, _)
RewriteVisited(a, gr, st, slot_offset, r) ==
  IF ~r.need_cg
    THEN [st EXCEPT !.insns = @ \o <<r.insn>>]
  ELSE IF r.spill = << >>
    THEN RewriteInsn(a, gr,
           [insns   |-> st.insns \o [k \in 1..Len(r.reload) |-> ReloadInsn(a, r.reload[k])],
            next_gp |-> r.next_gp, next_fp |-> r.next_fp, nss |-> r.nss],
           r.insn, slot_offset)
  ELSE [insns   |-> st.insns \o [k \in 1..Len(r.reload) |-> ReloadInsn(a, r.reload[k])]
                             \o <<r.insn>>
                             \o [k \in 1..Len(r.spill) |-> SpillInsn(a, r.spill[k])],
        next_gp |-> r.next_gp, next_fp |-> r.next_fp, nss |-> r.nss]

RewriteInsn(a, gr, st, i, slot_offset) ==
  RewriteVisited(a, gr, st, slot_offset,
                 SwapSlots(gr, RegSlots(i),
                           [insn |-> i, reload |-> << >>, spill |-> << >>,
                            next_gp |-> st.next_gp, next_fp |-> st.next_fp,
                            nss |-> st.nss, need_cg |-> FALSE],
                           slot_offset))

\* The loop over the instructions is of one block.
RECURSIVE RewriteBlock(_, _, _, _, _)
RewriteBlockFrom(a, gr, nx, is, slot_offset) ==
  IF Strict(nx) THEN RewriteBlock(a, gr, nx, is, slot_offset) ELSE nx

RewriteBlock(a, gr, st, is, slot_offset) ==
  IF is = << >> THEN st
  ELSE IF Len(is) = 1 THEN RewriteInsn(a, gr, st, is[1], slot_offset)
  ELSE RewriteBlockFrom(a, gr, RewriteBlock(a, gr, st, FirstHalf(is), slot_offset),
                        SecondHalf(is), slot_offset)

\* The loop over the blocks b..Len; st = [blocks, next_gp, next_fp, nss].
RECURSIVE RewriteBlocks(_, _, _, _, _)
RewriteBlocksFrom(a, gr, st, b, slot_offset, r) ==
  IF Strict(r)
    THEN RewriteBlocks(a, gr,
           [blocks  |-> [st.blocks EXCEPT ![b].insns = r.insns],
            next_gp |-> r.next_gp, next_fp |-> r.next_fp, nss |-> r.nss],
           b + 1, slot_offset)
    ELSE st

RewriteBlocks(a, gr, st, b, slot_offset) ==
  IF b > Len(st.blocks) THEN st
  ELSE RewriteBlocksFrom(a, gr, st, b, slot_offset,
         RewriteBlock(a, gr,
           [insns |-> << >>, next_gp |-> st.next_gp,
            next_fp |-> st.next_fp, nss |-> st.nss], st.blocks[b].insns, slot_offset))

\* The number of iterations of the instruction loop that visit instruction
\* i, the registers being handed out from the counters ngp and nfp.
RECURSIVE RewriteVisits(_, _, _, _)
RewriteVisitsFrom(gr, r) ==
  IF r.need_cg /\ r.spill = << >>
    THEN 1 + RewriteVisits(gr, r.insn, r.next_gp, r.next_fp)
    ELSE 1

RewriteVisits(gr, i, ngp, nfp) ==
  RewriteVisitsFrom(gr, SwapSlots(gr, RegSlots(i),
                                  [insn |-> i, reload |-> << >>, spill |-> << >>,
                                   next_gp |-> ngp, next_fp |-> nfp,
                                   nss |-> 0, need_cg |-> FALSE], 0))

\* TRUE when some instruction hands a register to spill_and_swap.
AnySwap(gr, bbs) ==
  \E k \in 1..Len(AllInsns(bbs, 1)) : \E r \in RegsOf(AllInsns(bbs, 1)[k]) : NeedsSwap(gr, r)

(***************************************************************************)
(* The substitution pass and the removal of eliminated moves.              *)
(***************************************************************************)
\* Registers the substitution pass replaces.
IsAllocated(r) == ~is_pseudo(r) /\ is_virt(r)

\* Variant: the bit of colour x is x itself.
MaskBitSame(x) == x

\* The bit the pass sets for colour x.
MaskBit(x) == x - 1

SubstReg(gr, r) ==
  IF IsAllocated(r)
    THEN (IF is_fp(r) THEN mreg_of_reg(-gr[r].color) ELSE mreg_of_reg(gr[r].color))
    ELSE r

\* used_gp_mask / used_fp_mask accumulated over the instructions is,
\* starting from mask m; fp selects the class.
MaskOr(gr, r, fp, m) ==
  IF IsAllocated(r) /\ is_fp(r) = fp THEN m \cup {MaskBit(gr[r].color)} ELSE m

RECURSIVE MaskSlots(_, _, _, _, _)
MaskSlots(gr, i, slots, fp, m) ==
  IF slots = << >> THEN m
  ELSE MaskSlots(gr, i, Tail(slots), fp, MaskOr(gr, SlotReg(i, Head(slots)), fp, m))

RECURSIVE UsedMask(_, _, _, _)
UsedMaskFrom(gr, is, fp, nx) == IF Strict(nx) THEN UsedMask(gr, is, fp, nx) ELSE nx

UsedMask(gr, is, fp, m) ==
  IF is = << >> THEN m
  ELSE IF Len(is) = 1 THEN MaskSlots(gr, is[1], RegSlots(is[1]), fp, m)
  ELSE UsedMaskFrom(gr, SecondHalf(is), fp, UsedMask(gr, FirstHalf(is), fp, m))

\* TRUE when LI_ASSERT(x != 0) fails on some operand.
SubstAssertFails(gr, bbs) == \E r \in ProcRegs(bbs) : IsAllocated(r) /\ gr[r].color = 0

Substitute(gr, bbs) ==
  [b \in 1..Len(bbs) |->
     [bbs[b] EXCEPT !.insns = [k \in 1..Len(bbs[b].insns) |->
                                 MapRegs(bbs[b].insns[k],
                                         [r \in RegsOf(bbs[b].insns[k]) |-> SubstReg(gr, r)])]]]

\* Variant: every move is taken for an eliminated one.
IsSelfMoveAny(i) == is_mov(i)

\* The predicate of erase_if.
IsSelfMove(i) ==
  IF is_mov(i) THEN (IF Len(i.arg) >= 1 /\ i.arg[1].t = "reg" THEN i.out = i.arg[1].reg ELSE FALSE)
  ELSE FALSE

EraseMoves(bbs) ==
  [b \in 1..Len(bbs) |-> [bbs[b] EXCEPT !.insns = SelectSeq(@, LAMBDA i : ~IsSelfMove(i))]]

used_stack_length_of(nss) == ((nss + 1) \div 2) * 2 * 8


(***************************************************************************)
(* Input procedures.  V(k) / F(k) are the k-th allocatable GP / FP         *)
(* virtual registers.                                                      *)
(***************************************************************************)
V(k) == VirtGP(vreg_first + k)

F(k) == VirtFP(vreg_first + k)

VR(fp, k) == IF fp THEN F(k) ELSE V(k)


Block(is, succ) == [insns |-> is, succ |-> succ]

\* n registers of one class defined one after the other, then all used.
MutLiveInsns(fp, n) ==
  [k \in 1..n |-> minsn(IF fp THEN "movf" ELSE "movi", VR(fp, k - 1), <<Imm(k)>>)]
  \o [k \in 1..(n - 1) |-> minsn("add", VR(fp, 0), <<Reg(VR(fp, 0)), Reg(VR(fp, k))>>)]

MutLiveProc(fp, n) ==
  <<Block(MutLiveInsns(fp, n) \o <<minsn("ret", 0, <<Reg(VR(fp, 0))>>)>>, << >>)>>

\* g GP and f FP registers, definitions interleaved, all live together.
MixedProc(g, f) ==
  <<Block([k \in 1..(2 * Max2(g, f)) |->
             IF k % 2 = 1 THEN minsn("movi", V(Min2((k - 1) \div 2, g - 1)), <<Imm(k)>>)
                          ELSE minsn("movf", F(Min2((k - 1) \div 2, f - 1)), <<Imm(k)>>)]
          \o [k \in 1..(g - 1) |-> minsn("add", V(0), <<Reg(V(0)), Reg(V(k))>>)]
          \o [k \in 1..(f - 1) |-> minsn("add", F(0), <<Reg(F(0)), Reg(F(k))>>)]
          \o <<minsn("ret", 0, <<Reg(V(0)), Reg(F(0))>>)>>, << >>)>>

\* v100 = movi imm; v101 = mov v100; ret v101
CoalesceProc ==
  <<Block(<<minsn("movi", V(0), <<Imm(7)>>),
            minsn("movi", V(1), <<Reg(V(0))>>),
            minsn("ret", 0, <<Reg(V(1))>>)>>, << >>)>>

\* A physical register c live across virtual definitions, and moves
\* between virtual and physical registers.
PhysProc(c) ==
  <<Block(<<minsn("movi", PhysGP(c), <<Imm(1)>>),
            minsn("movi", V(0), <<Imm(2)>>),
            minsn("movi", V(1), <<Reg(PhysGP(c))>>),
            minsn("add", V(0), <<Reg(V(0)), Reg(V(1))>>),
            minsn("add", V(0), <<Reg(V(0)), Reg(PhysGP(c))>>),
            minsn("movi", PhysGP(1), <<Reg(V(0))>>),
            minsn("ret", 0, <<Reg(PhysGP(1))>>)>>, << >>)>>

\* n GP registers live together with physical register 1.
PhysLiveProc(n) ==
  <<Block(<<minsn("movi", PhysGP(1), <<Imm(0)>>)>>
          \o MutLiveInsns(FALSE, n)
          \o <<minsn("add", V(0), <<Reg(V(0)), Reg(PhysGP(1))>>),
               minsn("ret", 0, <<Reg(V(0))>>)>>, << >>)>>

\* The reserved registers named by the set S (of 1..3) are used: vreg_vm in
\* three instructions, the others in one each.
ArgProc(S) ==
  <<Block(<<minsn("movi", V(0), <<Imm(0)>>)>>
          \o (IF 1 \in S THEN <<minsn("add", V(0), <<Reg(V(0)), Reg(vreg_vm)>>),
                                minsn("movi", V(1), <<Reg(vreg_vm)>>),
                                minsn("add", V(0), <<Reg(V(1)), Reg(vreg_vm)>>)>>
                         ELSE << >>)
          \o (IF 2 \in S THEN <<minsn("add", V(0), <<Reg(V(0)), Reg(vreg_tos)>>)>> ELSE << >>)
          \o (IF 3 \in S THEN <<minsn("add", V(0), <<Reg(V(0)), Reg(vreg_nargs)>>)>> ELSE << >>)
          \o <<minsn("ret", 0, <<Reg(V(0))>>)>>, << >>)>>

\* Three blocks with a loop on the middle one.
LoopProc ==
  <<Block(<<minsn("movi", V(0), <<Imm(0)>>), minsn("movi", V(1), <<Imm(10)>>)>>, <<2>>),
    Block(<<minsn("add", V(0), <<Reg(V(0)), Reg(V(1))>>),
            minsn("movf", F(0), <<Imm(1)>>),
            minsn("add", F(0), <<Reg(F(0)), Reg(F(0))>>)>>, <<2, 3>>),
    Block(<<minsn("ret", 0, <<Reg(V(0))>>)>>, << >>)>>

\* Loads and stores through a virtual base register; the first move copies
\* a register that stays live, the second one that does not.
MemProc ==
  <<Block(<<minsn("movi", V(0), <<Imm(64)>>),
            minsn("loadi64", V(1), <<Mem(V(0), 8)>>),
            minsn("movi", V(2), <<Reg(V(1))>>),
            minsn("movi", V(3), <<Reg(V(2))>>),
            minsn("storei64", 0, <<Mem(V(0), 0), Reg(V(3))>>),
            minsn("ret", 0, <<Reg(V(1))>>)>>, << >>)>>

\* n registers, each live over the next w definitions.
WindowProc(n, w) ==
  <<Block([k \in 1..n |->
             IF k <= w THEN minsn("movi", V(k - 1), <<Imm(k)>>)
             ELSE minsn("add", V(k - 1), <<Reg(V(k - 2)), Reg(V(k - 1 - w))>>)]
          \o <<minsn("ret", 0, <<Reg(V(n - 1))>>)>>, << >>)>>

\* h registers, each the base and the value of two stores, live across the
\* definition and the single use of one more register.
PressureProc(h) ==
  <<Block([k \in 1..h |-> minsn("movi", V(k), <<Imm(k)>>)]
          \o <<minsn("movi", V(0), <<Imm(0)>>),
               minsn("add", V(1), <<Reg(V(1)), Reg(V(0))>>)>>
          \o [k \in 1..(2 * h) |->
                minsn("storei64", 0, <<Mem(V((k + 1) \div 2), 0), Reg(V((k + 1) \div 2))>>)]
          \o <<minsn("ret", 0, <<Reg(V(1))>>)>>, << >>)>>

Scenario(kind, n, m) == [kind |-> kind, n |-> n, m |-> m]

Scenarios(a) ==
  {Scenario("mutlive_gp", n, 0) :
      n \in {2, 5, num_gp_reg(a), num_gp_reg(a) + 1} \cup {num_gp_reg(a) + MaxExtra}}
  \cup {Scenario("mutlive_fp", n, 0) : n \in {3, num_fp_reg(a) + 1, num_fp_reg(a) + MaxExtra}}
  \cup {Scenario("mixed", 3, 4), Scenario("mixed", Len(a.gp_volatile) + 2, Len(a.fp_volatile) + 3)}
  \cup {Scenario("coalesce", 0, 0), Scenario("loop", 0, 0),
        Scenario("mem", 0, 0)}
  \cup {Scenario("phys", c, 0) : c \in {1, 2, num_gp_reg(a)}}
  \cup {Scenario("physlive", Len(a.gp_volatile) + 2, 0)}
  \cup {Scenario("args", n, 0) : n \in 0..7}
  \cup {Scenario("window", 8, w) : w \in {2, 4}}
  \cup {Scenario("pressure", num_gp_reg(a) + 1, 0)}

\* The set of reserved-register indices encoded by n (bit i-1 for regs[i]).
ArgSet(n) == {i \in 1..3 : (n \div (2 ^ (i - 1))) % 2 = 1}

ProcOf(sc) ==
  CASE sc.kind = "mutlive_gp" -> MutLiveProc(FALSE, sc.n)
    [] sc.kind = "mutlive_fp" -> MutLiveProc(TRUE, sc.n)
    [] sc.kind = "mixed"      -> MixedProc(sc.n, sc.m)
    [] sc.kind = "coalesce"   -> CoalesceProc
    [] sc.kind = "loop"       -> LoopProc
    [] sc.kind = "mem"        -> MemProc
    [] sc.kind = "phys"       -> PhysProc(sc.n)
    [] sc.kind = "physlive"   -> PhysLiveProc(sc.n)
    [] sc.kind = "args"       -> ArgProc(ArgSet(sc.n))
    [] sc.kind = "window"     -> WindowProc(sc.n, sc.m)
    [] sc.kind = "pressure"   -> PressureProc(sc.n)

\* First unused id of the fresh-register counter of a class.
FirstFree(bbs, fp) ==
  SetMax({vreg_first} \cup {virt(r) + 1 : r \in {x \in ProcRegs(bbs) : is_virt(x) /\ is_fp(x) = fp}})


(***************************************************************************)
(* allocate_registers as a state machine.                                  *)
(***************************************************************************)
VARIABLES
  abi,               \* the ABI descriptor the build was configured with
  scenario,          \* which input procedure this run allocates
  pc,                \* position of control
  blocks,            \* proc->basic_blocks
  next_gp, next_fp,  \* the fresh-register counters of the procedure
  arg_regs,          \* regs[] of spill_args
  df,                \* df_def, df_ref, df_in_live, df_out_live per block
  graph,             \* interference_graph
  graph_copy,        \* interference_graph_copy
  K, M,              \* colour budgets
  step,              \* loop counter
  num_spill_slots,
  tc_stack,          \* the activations of try_color: <<[it, tmp], ...>>
  tc_ret,            \* the pair the last finished activation returned
  used_stack_length, used_gp_mask, used_fp_mask,
  ma_args,           \* arguments of the last map_argument call
  ma_result          \* and the value it returned

vars == <<abi, scenario, pc, blocks, next_gp, next_fp, arg_regs, df, graph, graph_copy,
          K, M, step, num_spill_slots, tc_stack, tc_ret,
          used_stack_length, used_gp_mask, used_fp_mask, ma_args, ma_result>>

StepCap == 32

NoDf == [def |-> << >>, ref |-> << >>, in_live |-> << >>, out_live |-> << >>]

NoCall == [gp |-> 0, fp |-> 0, is_fp |-> FALSE]

Init ==
  /\ abi \in ABIs
  /\ scenario \in Scenarios(abi)
  /\ pc = "spill_args"
  /\ blocks = ProcOf(scenario)
  /\ next_gp = FirstFree(blocks, FALSE)
  /\ next_fp = FirstFree(blocks, TRUE)
  /\ arg_regs = <<0, 0, 0>>
  /\ df = NoDf
  /\ graph = << >>
  /\ graph_copy = << >>
  /\ K = 0
  /\ M = 0
  /\ step = 0
  /\ num_spill_slots = 0
  /\ tc_stack = << >>
  /\ tc_ret = [gp |-> 0, fp |-> 0]
  /\ used_stack_length = 0
  /\ used_gp_mask = {}
  /\ used_fp_mask = {}
  /\ ma_args = NoCall
  /\ ma_result = 0

\* spill_args(proc)
SpillArgs ==
  /\ pc = "spill_args"
  /\ \E src \in [1..3 -> UNION {map_argument(abi, i, 0, FALSE) : i \in 0..2}] :
       /\ \A i \in 1..3 : src[i] \in map_argument(abi, i - 1, 0, FALSE)
       /\ \E r \in {spill_args(blocks, next_gp, src)} :
             /\ blocks' = r.blocks
             /\ next_gp' = r.next_gp
             /\ arg_regs' = r.regs
  /\ pc' = "build_graph"
  /\ UNCHANGED <<abi, scenario, next_fp, df, graph, graph_copy, K, M, step, num_spill_slots,
                 tc_stack, tc_ret, used_stack_length, used_gp_mask, used_fp_mask,
                 ma_args, ma_result>>

\* The initial budgets.
InitialK(a) == Min2(num_gp_reg(a), Max2(Len(a.gp_volatile), 2))

InitialM(a) == Min2(num_fp_reg(a), Max2(Len(a.fp_volatile), 2))

\* build_graph(proc), the initial budgets and the baseline copy.
BuildGraph ==
  /\ pc = "build_graph"
  /\ \E r \in {build_graph(blocks)} :
       /\ graph' = r.graph
       /\ graph_copy' = r.graph
       /\ df' = r.df
  /\ K' = InitialK(abi)
  /\ M' = InitialM(abi)
  /\ step' = 0
  /\ num_spill_slots' = 0
  /\ tc_stack' = << >>
  /\ pc' = "call"
  /\ UNCHANGED <<abi, scenario, blocks, next_gp, next_fp, arg_regs, tc_ret,
                 used_stack_length, used_gp_mask, used_fp_mask, ma_args, ma_result>>

\* try_color is entered and finds a node: it removes the node and calls
\* itself.
TryColorRecurse ==
  /\ pc = "call"
  /\ PickNode(graph, K, M) # NoNode
  /\ \E it \in {PickNode(graph, K, M)} :
       /\ tc_stack' = Append(tc_stack, [it |-> it, tmp |-> graph[it].vtx])
       /\ graph' = RemoveNode(graph, it)
  /\ UNCHANGED <<abi, scenario, pc, blocks, next_gp, next_fp, arg_regs, df, graph_copy,
                 K, M, step, num_spill_slots, tc_ret,
                 used_stack_length, used_gp_mask, used_fp_mask, ma_args, ma_result>>

\* try_color is entered and finds no node: return {0, 0}.
TryColorSuccess ==
  /\ pc = "call"
  /\ PickNode(graph, K, M) = NoNode
  /\ tc_ret' = [gp |-> 0, fp |-> 0]
  /\ pc' = "return"
  /\ UNCHANGED <<abi, scenario, blocks, next_gp, next_fp, arg_regs, df, graph, graph_copy,
                 K, M, step, num_spill_slots, tc_stack,
                 used_stack_length, used_gp_mask, used_fp_mask, ma_args, ma_result>>

\* The recursive call returned to the innermost waiting activation, which
\* adds its node back, colours or spills it, and returns.
TryColorReturn ==
  /\ pc = "return"
  /\ tc_stack # << >>
  /\ \E r \in {ColorNode(graph, tc_stack[Len(tc_stack)].it, tc_stack[Len(tc_stack)].tmp,
                           K, M, tc_ret)} :
       /\ graph' = r.graph
       /\ tc_ret' = r.ret
  /\ tc_stack' = SubSeq(tc_stack, 1, Len(tc_stack) - 1)
  /\ UNCHANGED <<abi, scenario, pc, blocks, next_gp, next_fp, arg_regs, df, graph_copy,
                 K, M, step, num_spill_slots,
                 used_stack_length, used_gp_mask, used_fp_mask, ma_args, ma_result>>

\* Control is back in the loop of allocate_registers.
InLoop == pc = "return" /\ tc_stack = << >>

\* Variant: only the GP count is tested.
ShouldBreakGp(spill_gp, spill_fp) == spill_gp = 0

ShouldBreak(spill_gp, spill_fp) == spill_gp = 0 /\ spill_fp = 0

\* Variant: the budget is not compared with its maximum.
increase_k_any == tc_ret.gp # 0

increase_k == tc_ret.gp # 0 /\ K # num_gp_reg(abi)

increase_m == tc_ret.fp # 0 /\ M # num_fp_reg(abi)

\* The position after `continue` / the end of the loop body: the next
\* iteration starts with LI_ASSERT(step < 32).
NextIteration == IF step + 1 < StepCap THEN "call" ELSE "assert_step"

\* No spills: leave the loop and set used_stack_length.
LoopBreak ==
  /\ InLoop
  /\ ShouldBreak(tc_ret.gp, tc_ret.fp)
  /\ used_stack_length' = used_stack_length_of(num_spill_slots)
  /\ pc' = "substitute"
  /\ UNCHANGED <<abi, scenario, blocks, next_gp, next_fp, arg_regs, df, graph, graph_copy,
                 K, M, step, num_spill_slots, tc_stack, tc_ret,
                 used_gp_mask, used_fp_mask, ma_args, ma_result>>

\* Spills, and a budget below its maximum: widen, restore the graph.
LoopWiden ==
  /\ InLoop
  /\ ~ShouldBreak(tc_ret.gp, tc_ret.fp)
  /\ increase_k \/ increase_m
  /\ K' = K + (IF increase_k THEN 1 ELSE 0)
  /\ M' = M + (IF increase_m THEN 1 ELSE 0)
  /\ graph' = graph_copy
  /\ step' = step + 1
  /\ pc' = NextIteration
  /\ UNCHANGED <<abi, scenario, blocks, next_gp, next_fp, arg_regs, df, graph_copy,
                 num_spill_slots, tc_stack, tc_ret,
                 used_stack_length, used_gp_mask, used_fp_mask, ma_args, ma_result>>

\* Spills at full budgets: insert the spill code and rebuild the graph.
\* Every call of spill_and_swap runs into assume_unreachable(); this is the
\* outcome in which execution carries on past it.
LoopRewrite ==
  /\ InLoop
  /\ ~ShouldBreak(tc_ret.gp, tc_ret.fp)
  /\ ~(increase_k \/ increase_m)
  /\ Len(AllInsns(blocks, 1)) <= MaxInsns
  /\ \E r \in {RewriteBlocks(abi, graph,
                   [blocks |-> blocks, next_gp |-> next_gp, next_fp |-> next_fp,
                    nss |-> num_spill_slots], 1, num_spill_slots)} :
       /\ blocks' = r.blocks
       /\ next_gp' = r.next_gp
       /\ next_fp' = r.next_fp
       /\ num_spill_slots' = r.nss
       /\ \E g \in {build_graph(r.blocks)} :
             /\ graph' = g.graph
             /\ graph_copy' = g.graph
             /\ df' = g.df
  /\ step' = step + 1
  /\ pc' = NextIteration
  /\ UNCHANGED <<abi, scenario, arg_regs, K, M, tc_stack, tc_ret,
                 used_stack_length, used_gp_mask, used_fp_mask, ma_args, ma_result>>

\* The other outcome of reaching assume_unreachable(): the run does not
\* continue in any defined way.
LoopRewriteUnreachable ==
  /\ InLoop
  /\ ~ShouldBreak(tc_ret.gp, tc_ret.fp)
  /\ ~(increase_k \/ increase_m)
  /\ AnySwap(graph, blocks)
  /\ pc' = "unreachable"
  /\ UNCHANGED <<abi, scenario, blocks, next_gp, next_fp, arg_regs, df, graph, graph_copy,
                 K, M, step, num_spill_slots, tc_stack, tc_ret,
                 used_stack_length, used_gp_mask, used_fp_mask, ma_args, ma_result>>

\* "Swap the registers in the IR."
SubstituteRegs ==
  /\ pc = "substitute"
  /\ IF SubstAssertFails(graph, blocks)
       THEN /\ pc' = "assert_color"
            /\ UNCHANGED <<blocks, used_gp_mask, used_fp_mask>>
       ELSE /\ blocks' = Substitute(graph, blocks)
            /\ used_gp_mask' = UsedMask(graph, AllInsns(blocks, 1), FALSE, used_gp_mask)
            /\ used_fp_mask' = UsedMask(graph, AllInsns(blocks, 1), TRUE, used_fp_mask)
            /\ pc' = "erase"
  /\ UNCHANGED <<abi, scenario, next_gp, next_fp, arg_regs, df, graph, graph_copy,
                 K, M, step, num_spill_slots, tc_stack, tc_ret,
                 used_stack_length, ma_args, ma_result>>

\* "Remove eliminated moves."
RemoveMoves ==
  /\ pc = "erase"
  /\ blocks' = EraseMoves(blocks)
  /\ pc' = "done"
  /\ UNCHANGED <<abi, scenario, next_gp, next_fp, arg_regs, df, graph, graph_copy,
                 K, M, step, num_spill_slots, tc_stack, tc_ret,
                 used_stack_length, used_gp_mask, used_fp_mask, ma_args, ma_result>>

Next ==
  \/ SpillArgs
  \/ BuildGraph
  \/ TryColorRecurse
  \/ TryColorSuccess
  \/ TryColorReturn
  \/ LoopBreak
  \/ LoopWiden
  \/ LoopRewrite
  \/ LoopRewriteUnreachable
  \/ SubstituteRegs
  \/ RemoveMoves

Spec == Init /\ [][Next]_vars


(***************************************************************************)
(* try_color on its own: any graph build_graph makes, any budgets.         *)
(***************************************************************************)
InitColor ==
  /\ abi = ABI_SMALL
  /\ scenario \in Scenarios(abi)
  /\ pc = "call"
  /\ blocks = ProcOf(scenario)
  /\ next_gp = FirstFree(blocks, FALSE)
  /\ next_fp = FirstFree(blocks, TRUE)
  /\ arg_regs = <<0, 0, 0>>
  /\ \E r \in {build_graph(blocks)} :
       /\ df = r.df
       /\ graph = r.graph
       /\ graph_copy = r.graph
  /\ K \in 0..MaxBudget
  /\ M \in 0..MaxBudget
  /\ step = 0
  /\ num_spill_slots = 0
  /\ tc_stack = << >>
  /\ tc_ret = [gp |-> 0, fp |-> 0]
  /\ used_stack_length = 0
  /\ used_gp_mask = {}
  /\ used_fp_mask = {}
  /\ ma_args = NoCall
  /\ ma_result = 0

NextColor == TryColorRecurse \/ TryColorSuccess \/ TryColorReturn

SpecColor == InitColor /\ [][NextColor]_vars

(***************************************************************************)
(* map_argument on its own.                                                *)
(***************************************************************************)
InitArch ==
  /\ abi \in ABIs
  /\ scenario = Scenario("map_argument", 0, 0)
  /\ pc = "map_argument"
  /\ blocks = << >>
  /\ next_gp = vreg_first
  /\ next_fp = vreg_first
  /\ arg_regs = <<0, 0, 0>>
  /\ df = NoDf
  /\ graph = << >>
  /\ graph_copy = << >>
  /\ K = 0
  /\ M = 0
  /\ step = 0
  /\ num_spill_slots = 0
  /\ tc_stack = << >>
  /\ tc_ret = [gp |-> 0, fp |-> 0]
  /\ used_stack_length = 0
  /\ used_gp_mask = {}
  /\ used_fp_mask = {}
  /\ ma_args \in [gp : 0..MaxArgIdx, fp : 0..MaxArgIdx, is_fp : BOOLEAN]
  /\ ma_result = 0

\* arch::map_argument(gp, fp, is_fp)
MapArgument ==
  /\ pc = "map_argument"
  /\ ma_result' \in map_argument(abi, ma_args.gp, ma_args.fp, ma_args.is_fp)
  /\ pc' = "mapped"
  /\ UNCHANGED <<abi, scenario, blocks, next_gp, next_fp, arg_regs, df, graph, graph_copy,
                 K, M, step, num_spill_slots, tc_stack, tc_ret,
                 used_stack_length, used_gp_mask, used_fp_mask, ma_args>>

NextArch == MapArgument

SpecArch == InitArch /\ [][NextArch]_vars


(***************************************************************************)
(* The lifetime analysis of build_graph on its own, one pass of the        *)
(* do-while loop per step, over every control-flow graph of three blocks   *)
(* with at most two successors each.                                       *)
(***************************************************************************)
LiveProcs ==
  LET bodies == {<<minsn("movi", V(0), <<Imm(0)>>)>>,
                 <<minsn("add", V(1), <<Reg(V(1)), Reg(V(0))>>)>>,
                 <<minsn("add", V(0), <<Reg(vreg_vm), Reg(V(1))>>),
                   minsn("movf", F(0), <<Reg(F(1))>>)>>}
      succs  == {<< >>, <<1>>, <<2>>, <<3>>, <<1, 2>>, <<1, 3>>, <<2, 3>>}
  IN  {<<Block(b[1], t[1]), Block(b[2], t[2]), Block(b[3], t[3])>> :
         b \in [1..3 -> bodies], t \in [1..3 -> succs]}

InitLive ==
  /\ abi = ABI_SMALL
  /\ scenario = Scenario("liveness", 0, 0)
  /\ pc = "live"
  /\ blocks \in LiveProcs
  /\ next_gp = FirstFree(blocks, FALSE)
  /\ next_fp = FirstFree(blocks, TRUE)
  /\ arg_regs = <<0, 0, 0>>
  /\ df = [def      |-> [b \in 1..Len(blocks) |->
                           DefRef(blocks[b].insns, [def |-> {}, ref |-> {}]).def],
           ref      |-> [b \in 1..Len(blocks) |->
                           DefRef(blocks[b].insns, [def |-> {}, ref |-> {}]).ref],
           in_live  |-> [b \in 1..Len(blocks) |-> {}],
           out_live |-> [b \in 1..Len(blocks) |-> {}]]
  /\ graph = << >>
  /\ graph_copy = << >>
  /\ K = 0
  /\ M = 0
  /\ step = 0
  /\ num_spill_slots = 0
  /\ tc_stack = << >>
  /\ tc_ret = [gp |-> 0, fp |-> 0]
  /\ used_stack_length = 0
  /\ used_gp_mask = {}
  /\ used_fp_mask = {}
  /\ ma_args = NoCall
  /\ ma_result = 0

\* One execution of the do-while body: a pass over all blocks; the loop is
\* left when the pass changed nothing.
LivePass ==
  /\ pc = "live"
  /\ \E nx \in {LiveSweep(blocks, [b \in 1..Len(blocks) |->
                                      [def |-> df.def[b], ref |-> df.ref[b]]],
                            df.in_live, 1)} :
       IF nx = df.in_live
         THEN pc' = "live_out" /\ df' = df
         ELSE pc' = "live" /\ df' = [df EXCEPT !.in_live = nx]
  /\ UNCHANGED <<abi, scenario, blocks, next_gp, next_fp, arg_regs, graph, graph_copy,
                 K, M, step, num_spill_slots, tc_stack, tc_ret,
                 used_stack_length, used_gp_mask, used_fp_mask, ma_args, ma_result>>

\* "Convert to out-live."
LiveConvert ==
  /\ pc = "live_out"
  /\ df' = [df EXCEPT !.out_live = OutLive(blocks, df.in_live)]
  /\ pc' = "live_done"
  /\ UNCHANGED <<abi, scenario, blocks, next_gp, next_fp, arg_regs, graph, graph_copy,
                 K, M, step, num_spill_slots, tc_stack, tc_ret,
                 used_stack_length, used_gp_mask, used_fp_mask, ma_args, ma_result>>

NextLive == LivePass \/ LiveConvert

\* The loop and the conversion are sequential code: a step that can be
\* taken is taken.
SpecLive == InitLive /\ [][NextLive]_vars /\ WF_vars(NextLive)


(***************************************************************************)
(* Properties.                                                             *)
(***************************************************************************)
\* The loop of allocate_registers has been left.
LoopExited == pc \in {"substitute", "erase", "done"}

\* u and v are distinct nodes joined by an interference edge.
Edge(gr, u, v) == u # v /\ v \in gr[u].vtx

BothSpilledApart(gr, u, v) ==
  gr[u].spill_slot # 0 /\ gr[v].spill_slot # 0 /\ gr[u].spill_slot # gr[v].spill_slot

\* C1: when the colouring loop has exited without spills, any two distinct
\* nodes joined by an interference edge of the final graph (virtual against
\* virtual as well as virtual against pre-coloured physical) have different
\* colours, or are both spilled to distinct slots.
C1_ValidColouring ==
  LoopExited =>
    \A u \in DOMAIN graph : \A v \in DOMAIN graph :
      Edge(graph, u, v) =>
        graph[u].color # graph[v].color \/ BothSpilledApart(graph, u, v)

\* The loop was left after at least one more iteration, and the final graph
\* has an edge between a physical and an allocated virtual node and an edge
\* between two allocated virtual nodes.
C1_Witness ==
  /\ pc = "substitute"
  /\ step > 0
  /\ \E u \in DOMAIN graph : \E v \in DOMAIN graph :
       Edge(graph, u, v) /\ is_phys(u) /\ graph[u].color # 0 /\ IsAllocated(v)
  /\ \E u \in DOMAIN graph : \E v \in DOMAIN graph :
       Edge(graph, u, v) /\ IsAllocated(u) /\ IsAllocated(v)

\* No virtual register that needs allocation is left in the instructions.
NoneAllocatedLeft(bbs) == \A r \in ProcRegs(bbs) : ~IsAllocated(r)

\* C2: when the loop has exited, every non-pseudo virtual register that is
\* an operand of some instruction has a node with a colour, the assertion
\* x != 0 of the substitution pass does not fail, and after the pass no
\* non-pseudo virtual register is left in any instruction.
C2_AllColoured ==
  /\ pc = "substitute" =>
       \A r \in ProcRegs(blocks) :
         IsAllocated(r) => r \in DOMAIN graph /\ graph[r].color # 0
  /\ pc # "assert_color"
  /\ pc \in {"erase", "done"} => NoneAllocatedLeft(blocks)

\* The pass has run on a procedure with registers of both classes that
\* needed more than one iteration of the loop.
C2_Witness ==
  /\ pc = "erase"
  /\ step > 0
  /\ used_gp_mask # {}
  /\ used_fp_mask # {}
  /\ NoneAllocatedLeft(blocks)

\* Nodes of one class that were left spilled.
SpilledNodes(gr, fp) ==
  {n \in DOMAIN gr : gr[n].is_fp = fp /\ gr[n].color = 0 /\ gr[n].spill_slot # 0}

\* C3: when try_color has returned to its caller, every node has a colour
\* or a spill slot, and the pair returned counts the GP nodes and the FP
\* nodes left with no colour and a spill slot.
C3_TryColorPost ==
  InLoop =>
    /\ \A n \in DOMAIN graph : graph[n].color # 0 \/ graph[n].spill_slot # 0
    /\ tc_ret.gp = Cardinality(SpilledNodes(graph, FALSE))
    /\ tc_ret.fp = Cardinality(SpilledNodes(graph, TRUE))

\* try_color returned with spills of both classes and with coloured
\* virtual nodes of both classes.
C3_Witness ==
  /\ InLoop
  /\ tc_ret.gp > 1
  /\ tc_ret.fp > 1
  /\ \E n \in DOMAIN graph : IsAllocated(n) /\ ~graph[n].is_fp /\ graph[n].color # 0
  /\ \E n \in DOMAIN graph : IsAllocated(n) /\ graph[n].is_fp /\ graph[n].color # 0

\* Slots held by the interfering neighbours of node n.
NeighbourSlots(gr, n) == {gr[j].spill_slot : j \in {i \in DOMAIN gr : Edge(gr, n, i)}}

\* The smallest positive integer outside S.
Mex(S) == SetMin({s \in 1..(Cardinality(S) + 1) : s \notin S})

\* The node of the innermost waiting activation.
TopNode == tc_stack[Len(tc_stack)].it

\* C4: after any call of try_color two distinct nodes joined by an edge that
\* are both spilled hold different slots, and whenever a node is spilled it
\* receives the smallest positive slot none of its interfering neighbours
\* holds at that time.
C4_SpillSlots ==
  /\ [](InLoop =>
          \A u \in DOMAIN graph : \A v \in DOMAIN graph :
            Edge(graph, u, v) /\ graph[u].spill_slot # 0 /\ graph[v].spill_slot # 0
              => graph[u].spill_slot # graph[v].spill_slot)
  /\ [][(pc = "return" /\ tc_stack # << >> /\ graph'[TopNode].spill_slot # 0)
          => graph'[TopNode].spill_slot = Mex(NeighbourSlots(graph', TopNode))]_vars

\* try_color returned with two adjacent spilled nodes, one of them in a
\* slot above the first.
C4_Witness ==
  /\ InLoop
  /\ \E u \in DOMAIN graph : \E v \in DOMAIN graph :
       /\ Edge(graph, u, v)
       /\ graph[u].spill_slot = 1
       /\ graph[v].spill_slot > 1
  /\ \E u \in DOMAIN graph : \E v \in DOMAIN graph :
       /\ u # v
       /\ ~Edge(graph, u, v)
       /\ graph[u].spill_slot # 0
       /\ graph[u].spill_slot = graph[v].spill_slot


\* Instructions of the final stream that load from or store to the stack.
StackInsns(bbs) ==
  {k \in 1..Len(AllInsns(bbs, 1)) :
     AllInsns(bbs, 1)[k].op \in {"loadi64", "loadf64", "storei64", "storef64"}}

\* C5: a single block with N+1 mutually live GP virtual registers, N being
\* num_gp_reg: the allocation ends with exactly one register spilled (one
\* slot), used_stack_length = 16, reloads in the stream, and no more than N
\* distinct GP colours, all of them within 1..N.
C5_ForcedSpill ==
  (pc = "done" /\ scenario = Scenario("mutlive_gp", num_gp_reg(abi) + 1, 0)) =>
    /\ num_spill_slots = 1
    /\ used_stack_length = 16
    /\ StackInsns(blocks) # {}
    /\ used_gp_mask \subseteq 0..(num_gp_reg(abi) - 1)

\* C6: with 8 GP registers of which 3 are volatile, 5 mutually live GP
\* virtual registers are coloured with K = 5 at the exit of the loop, no
\* load or store is inserted and used_stack_length = 0.
C6_Widening ==
  (pc = "done" /\ abi = ABI_SMALL /\ scenario = Scenario("mutlive_gp", 5, 0)) =>
    /\ K = 5
    /\ StackInsns(blocks) = {}
    /\ used_stack_length = 0

\* Some operand of class fp that needed allocation in old holds the
\* physical register of colour c at the same place in new.
SubstitutedWith(old, new, fp, c) ==
  \E b \in 1..Len(old) : \E k \in 1..Len(old[b].insns) :
    \E sl \in Range(RegSlots(old[b].insns[k])) :
      /\ IsAllocated(SlotReg(old[b].insns[k], sl))
      /\ is_fp(SlotReg(old[b].insns[k], sl)) = fp
      /\ SlotReg(new[b].insns[k], sl) = (IF fp THEN PhysFP(c) ELSE PhysGP(c))

\* C7: the masks are empty until the substitution pass; the pass sets bit i
\* of used_gp_mask exactly when some GP virtual operand is replaced by the
\* register of colour i+1, and likewise for used_fp_mask and FP operands;
\* the masks do not change afterwards.
C7_Masks ==
  /\ [](pc \notin {"erase", "done"} => used_gp_mask = {} /\ used_fp_mask = {})
  /\ [][(pc = "substitute" /\ pc' = "erase") =>
          \A i \in 0..63 :
            /\ i \in used_gp_mask' <=> SubstitutedWith(blocks, blocks', FALSE, i + 1)
            /\ i \in used_fp_mask' <=> SubstitutedWith(blocks, blocks', TRUE, i + 1)]_vars
  /\ [][pc = "erase" => used_gp_mask' = used_gp_mask /\ used_fp_mask' = used_fp_mask]_vars

\* The allocation finished with several bits set in both masks.
C7_Witness ==
  /\ pc = "done"
  /\ Cardinality(used_gp_mask) > 1
  /\ Cardinality(used_fp_mask) > 1

\* The other register of the coalescing scenario.
MoveMate(n) == IF n = V(0) THEN V(1) ELSE V(0)

\* C8: in `v100 = movi imm; v101 = mov v100; ret v101` the two registers do
\* not interfere; the one coloured second adopts the colour of the first
\* through its coalescing hint, so both end with the same colour, and the
\* finished stream holds no move between registers (the mov is gone).
C8_Coalesce ==
  /\ []((scenario.kind = "coalesce" /\ LoopExited) =>
          /\ ~Edge(graph, V(0), V(1))
          /\ graph[V(0)].color # 0
          /\ graph[V(0)].color = graph[V(1)].color)
  /\ [][(scenario.kind = "coalesce" /\ pc = "return" /\ tc_stack # << >>
           /\ TopNode \in {V(0), V(1)} /\ graph[MoveMate(TopNode)].color # 0) =>
          /\ HintColor(RestoreNode(graph, TopNode, tc_stack[Len(tc_stack)].tmp), TopNode,
                       color_mask(graph, TopNode, tc_stack[Len(tc_stack)].tmp), 1)
               = graph[MoveMate(TopNode)].color
          /\ graph'[TopNode].color = graph[MoveMate(TopNode)].color]_vars
  /\ []((scenario.kind = "coalesce" /\ pc = "done") =>
          /\ Len(blocks[1].insns) = 2
          /\ \A k \in 1..Len(blocks[1].insns) : ~is_reg_mov(blocks[1].insns[k]))

\* The coalescing scenario has finished: two instructions are left, the
\* definition and the return, on one and the same physical register.
C8_Witness ==
  /\ scenario.kind = "coalesce"
  /\ pc = "done"
  /\ Len(blocks[1].insns) = 2
  /\ blocks[1].insns[1].out = blocks[1].insns[2].arg[1].reg
  /\ is_phys(blocks[1].insns[1].out)

\* The moves of the entry block into register r.
MovesInto(bbs, r) ==
  {k \in 1..Len(bbs[1].insns) : is_mov(bbs[1].insns[k]) /\ bbs[1].insns[k].out = r}

\* The internal index of the i-th GP argument register of the ABI.
ArgumentReg(a, i) == from_native(a, a.gp_argument[i])

\* C9: after spill_args every reserved register that occurs in the
\* procedure is replaced throughout by one fresh GP virtual register, and
\* the entry block holds exactly one move into it, whose source is the ABI
\* GP argument register of the matching index; a reserved register that
\* does not occur gets no register and no move.
C9_ArgMoves ==
  (pc = "build_graph" /\ scenario.kind = "args") =>
    \A i \in 1..3 :
      IF i \in ArgSet(scenario.n)
        THEN /\ IsAllocated(arg_regs[i])
             /\ ~is_fp(arg_regs[i])
             /\ arg_regs[i] \notin ProcRegs(ProcOf(scenario))
             /\ ProcRegs(blocks) \cap {vreg_vm, vreg_tos, vreg_nargs} = {}
             /\ Cardinality(MovesInto(blocks, arg_regs[i])) = 1
             /\ ArgumentReg(abi, i) # 0
             /\ \A k \in MovesInto(blocks, arg_regs[i]) :
                  blocks[1].insns[k].arg = <<Reg(mreg_of_reg(ArgumentReg(abi, i)))>>
        ELSE arg_regs[i] = 0

\* The table and the effective index of the recorded call.
ArgTable == IF ma_args.is_fp THEN abi.fp_argument ELSE abi.gp_argument

ArgIndex ==
  IF abi.combined_arg_counter THEN ma_args.gp + ma_args.fp
  ELSE IF ma_args.is_fp THEN ma_args.fp ELSE ma_args.gp

\* C10: map_argument returns, for an effective index inside the argument
\* table, the internal index r with to_native(r) equal to the table element
\* at that index, and 0 for an index outside of it, which it never reads.
C10_MapArgument ==
  pc = "mapped" =>
    IF ArgIndex < Len(ArgTable)
      THEN to_native(abi, ma_result) = ArgTable[ArgIndex + 1]
      ELSE /\ ma_result = 0
           /\ map_argument_native(abi, ma_args.gp, ma_args.fp, ma_args.is_fp) # OutOfBounds

\* Iterations the loop spends on widening from the initial to the current
\* budgets, at most.
Widenings == (K - InitialK(abi)) + (M - InitialM(abi))

\* C11: the colouring loop ends before its iteration cap: LI_ASSERT(step <
\* 32) never fails, the iterations are the widening ones plus at most one
\* spill-rewrite pass, and once a rewrite pass has allotted stack slots no
\* further pass rewrites the stream.
C11_LoopTerminates ==
  /\ [](pc # "assert_step")
  /\ [](pc \in {"call", "return", "substitute"} => step <= Widenings + 1)
  /\ [][(InLoop /\ num_spill_slots > 0) => blocks' = blocks]_vars

\* A move between registers whose destination is its source.
SameRegMove(i) == is_reg_mov(i) /\ i.out = i.arg[1].reg

\* Positions of the instructions of is that are no such moves.
Kept(is) == {k \in 1..Len(is) : ~SameRegMove(is[k])}

\* new holds the instructions of old at the positions of Kept, in order.
KeptInOrder(old, new) ==
  /\ Len(new) = Cardinality(Kept(old))
  /\ \A k \in Kept(old) : new[Cardinality({j \in Kept(old) : j <= k})] = old[k]

\* C12: after allocate_registers no block holds a register move whose
\* destination equals its source, and the elimination pass removes these
\* moves only: every other instruction stays, in its place in the order.
C12_SelfMoves ==
  /\ [](pc = "done" =>
          \A b \in 1..Len(blocks) : \A k \in 1..Len(blocks[b].insns) :
            ~SameRegMove(blocks[b].insns[k]))
  /\ [][pc = "erase" =>
          /\ Len(blocks') = Len(blocks)
          /\ \A b \in 1..Len(blocks) :
               /\ KeptInOrder(blocks[b].insns, blocks'[b].insns)
               /\ blocks'[b].succ = blocks[b].succ]_vars

\* The pass has removed a move and has left another move between two
\* different registers in the stream.
C12_Witness ==
  /\ pc = "done"
  /\ Len(AllInsns(blocks, 1)) < Len(AllInsns(ProcOf(scenario), 1))
  /\ \E k \in 1..Len(AllInsns(blocks, 1)) :
       is_reg_mov(AllInsns(blocks, 1)[k]) /\ ~SameRegMove(AllInsns(blocks, 1)[k])

\* Colours within the budget of node n's class that none of its coloured
\* neighbours holds.
FreeColours(gr, n, k, m) ==
  {c \in 1..Limit(gr, n, k, m) :
     \A j \in DOMAIN gr : (Edge(gr, n, j) /\ gr[j].color # 0) => gr[j].color # c}

\* C13: every colour an activation of try_color gives its node, adopted
\* from a hint or picked as the lowest free one, lies in 1..K for a GP node
\* and in 1..M for an FP node, and a node with no free colour in that range
\* is spilled.
C13_ColourRange ==
  [][(pc = "return" /\ tc_stack # << >>) =>
       /\ graph'[TopNode].color # 0 =>
            graph'[TopNode].color \in 1..Limit(graph, TopNode, K, M)
       /\ FreeColours(graph', TopNode, K, M) = {} =>
            graph'[TopNode].color = 0 /\ graph'[TopNode].spill_slot # 0]_vars

\* Uncoloured nodes of nonzero degree, and those of them whose degree is
\* strictly below the budget of their class.
Pickable(gr) == {n \in DOMAIN gr : gr[n].color = 0 /\ Degree(gr, n) > 0}

Simplifiable(gr, k, m) == {n \in Pickable(gr) : Degree(gr, n) < Limit(gr, n, k, m)}

\* The node the activation entered in this step has picked.
Picked == tc_stack'[Len(tc_stack')].it

\* C14: try_color picks a simplifiable node (uncoloured, degree nonzero and
\* strictly below K or M) whenever there is one; otherwise an uncoloured
\* node of nonzero degree that has the minimum priority among them; and
\* when there is no uncoloured node of nonzero degree it returns (0, 0) and
\* leaves the graph as it is.
C14_PickRule ==
  [][pc = "call" =>
       IF Pickable(graph) = {}
         THEN graph' = graph /\ tc_stack' = tc_stack /\ tc_ret' = [gp |-> 0, fp |-> 0]
         ELSE /\ Len(tc_stack') = Len(tc_stack) + 1
              /\ Picked \in Pickable(graph)
              /\ Simplifiable(graph, K, M) # {} => Picked \in Simplifiable(graph, K, M)
              /\ Simplifiable(graph, K, M) = {} =>
                   \A o \in Pickable(graph) : graph[Picked].priority <= graph[o].priority]_vars

\* C15: the data-flow iteration of build_graph terminates on every
\* control-flow graph; from one pass to the next the in-live set of a block
\* only grows; on exit in(B) = (out(B) \ def(B)) + ref(B) and out(B) is the
\* union of in(S) over the successors S of B; and no pseudo register is in
\* any of the four sets.
C15_Liveness ==
  /\ <>(pc = "live_done")
  /\ [][pc = "live" => \A b \in 1..Len(blocks) : df.in_live[b] \subseteq df'.in_live[b]]_vars
  /\ [](pc = "live_done" =>
          \A b \in 1..Len(blocks) :
            /\ df.in_live[b] = (df.out_live[b] \ df.def[b]) \cup df.ref[b]
            /\ df.out_live[b] = UNION {df.in_live[s] : s \in Range(blocks[b].succ)}
            /\ \A r \in df.def[b] \cup df.ref[b] \cup df.in_live[b] \cup df.out_live[b] :
                 ~is_pseudo(r))

\* The analysis has finished on a graph with a loop, where a register is
\* live into a block that neither reads nor writes it, and a block that
\* defines a register does not have it live in although it is live out.
C15_Witness ==
  /\ pc = "live_done"
  /\ \E b \in 1..Len(blocks) : b \in Range(blocks[b].succ)
  /\ \E b \in 1..Len(blocks) : df.in_live[b] \ (df.ref[b] \cup df.def[b]) # {}
  /\ \E b \in 1..Len(blocks) : (df.out_live[b] \cap df.def[b]) \ df.in_live[b] # {}

\* C16: the interference graph is undirected after build_graph and at
\* every call and return of try_color, the recursive calls made with nodes
\* removed included: bit j is set in vtx[i] exactly when bit i is set in
\* vtx[j].
C16_Undirected ==
  pc \in {"call", "return"} =>
    \A i \in DOMAIN graph : \A j \in graph[i].vtx :
      j \in DOMAIN graph /\ i \in graph[j].vtx

\* A recursive call of try_color: the removed node had a neighbour, which
\* still has edges of its own.
C16_Witness ==
  /\ pc = "call"
  /\ tc_stack # << >>
  /\ graph[TopNode].vtx = {}
  /\ \E j \in tc_stack[Len(tc_stack)].tmp :
       j # TopNode /\ \E l \in DOMAIN graph : Edge(graph, j, l)

\* The classes that spilled in the last try_color all have their maximal
\* budget.
SpilledAtMax ==
  /\ tc_ret.gp # 0 => K = num_gp_reg(abi)
  /\ tc_ret.fp # 0 => M = num_fp_reg(abi)

\* C17: widen before spill.  The loop inserts spill loads and stores only
\* if every class that spilled already has its maximal budget; otherwise
\* each spilling class below its maximum gets one more colour, the graph is
\* restored to the baseline copy (no colour of a virtual register and no
\* spill slot survives) and the instruction stream is unchanged.  K and M
\* never decrease and never exceed num_gp_reg and num_fp_reg.
C17_WidenBeforeSpill ==
  /\ [][(InLoop /\ blocks' # blocks) => SpilledAtMax]_vars
  /\ [][(InLoop /\ (tc_ret.gp # 0 \/ tc_ret.fp # 0) /\ ~SpilledAtMax) =>
          /\ K' = K + (IF tc_ret.gp # 0 /\ K < num_gp_reg(abi) THEN 1 ELSE 0)
          /\ M' = M + (IF tc_ret.fp # 0 /\ M < num_fp_reg(abi) THEN 1 ELSE 0)
          /\ graph' = graph_copy
          /\ \A u \in DOMAIN graph' :
               /\ graph'[u].spill_slot = 0
               /\ is_virt(u) => graph'[u].color = 0
          /\ blocks' = blocks
          /\ num_spill_slots' = num_spill_slots]_vars
  /\ [][pc # "build_graph" => (K' >= K /\ M' >= M)]_vars
  /\ [](K <= num_gp_reg(abi) /\ M <= num_fp_reg(abi))

\* Both have happened in one run: the GP budget was widened up to its
\* maximum, and spill code was inserted after that.
C17_Witness ==
  /\ K > InitialK(abi)
  /\ K = num_gp_reg(abi)
  /\ num_spill_slots > 0
  /\ Len(AllInsns(blocks, 1)) > Len(AllInsns(ProcOf(scenario), 1))

\* The spilled registers instruction i reads, and whether it writes one.
SpilledReads(i) == {r \in ReadsOf(i) : NeedsSwap(graph, r)}

SpilledOut(i) == ~is_null(i.out) /\ NeedsSwap(graph, i.out)

\* The number of instructions that stand for instruction i after the pass,
\* and the place of the first of them.
RunLen(i) == Cardinality(SpilledReads(i)) + 1 + (IF SpilledOut(i) THEN 1 ELSE 0)

RECURSIVE RunStart(_, _)
RunStart(is, k) == IF k = 1 THEN 1 ELSE RunStart(is, k - 1) + RunLen(is[k - 1])

\* A register the procedure did not hold before the pass.
FreshReg(r) == is_virt(r) /\ ~is_pseudo(r) /\ r \notin ProcRegs(blocks)

\* ns[s..] holds what the claim expects for instruction i: one load per
\* spilled register read, the instruction with fresh registers in the
\* place of the spilled ones, and one store if it writes a spilled register.
RewrittenAt(ns, s, i) ==
  LET nr == Cardinality(SpilledReads(i))
      ni == ns[s + nr]
      ld == {ns[q].out : q \in s..(s + nr - 1)}
  IN  /\ \A q \in s..(s + nr - 1) :
           /\ ns[q].op \in {"loadi64", "loadf64"}
           /\ FreshReg(ns[q].out)
           /\ ns[q].arg[1].t = "mem"
      /\ Cardinality(ld) = nr
      /\ ni.op = i.op
      /\ Len(ni.arg) = Len(i.arg)
      /\ \A k \in 1..Len(i.arg) :
           IF i.arg[k].t \in {"reg", "mem"} /\ i.arg[k].reg \in SpilledReads(i)
             THEN /\ ni.arg[k].reg \in ld
                  /\ is_fp(ni.arg[k].reg) = is_fp(i.arg[k].reg)
                  /\ ni.arg[k].t = i.arg[k].t
                  /\ ni.arg[k].disp = i.arg[k].disp
                  /\ \A l \in 1..Len(i.arg) :
                       (i.arg[l].t \in {"reg", "mem"} /\ i.arg[l].reg = i.arg[k].reg)
                         => ni.arg[l].reg = ni.arg[k].reg
             ELSE ni.arg[k] = i.arg[k]
      /\ \A t \in ld : \E k \in 1..Len(i.arg) : ni.arg[k].reg = t
      /\ IF SpilledOut(i)
           THEN /\ FreshReg(ni.out)
                /\ is_fp(ni.out) = is_fp(i.out)
                /\ ni.out \notin ld
                /\ ns[s + nr + 1].op \in {"storei64", "storef64"}
                /\ ns[s + nr + 1].arg[1].t = "mem"
                /\ ns[s + nr + 1].arg[2] = Reg(ni.out)
           ELSE ni.out = i.out

\* The loop of allocate_registers is about to insert spill code.
RewriteDue == InLoop /\ ~ShouldBreak(tc_ret.gp, tc_ret.fp) /\ SpilledAtMax

\* C18: in a spill-rewriting pass every instruction that references a
\* spilled register gets each such read operand replaced by a fresh virtual
\* register of the same class, loaded once immediately before it, the same
\* fresh register serving repeated reads of one register, and a written
\* operand replaced by a fresh virtual register stored once immediately
\* after it; every original instruction is processed once; and no spilled
\* register occurs in the stream after the pass.
C18_SpillRewrite ==
  [][RewriteDue =>
       /\ \A b \in 1..Len(blocks) :
            /\ Len(blocks'[b].insns) =
                 RunStart(blocks[b].insns, Len(blocks[b].insns) + 1) - 1
            /\ \A k \in 1..Len(blocks[b].insns) :
                 /\ RewrittenAt(blocks'[b].insns, RunStart(blocks[b].insns, k),
                                blocks[b].insns[k])
                 /\ RewriteVisits(graph, blocks[b].insns[k], next_gp, next_fp) = 1
       /\ \A r \in ProcRegs(blocks') : ~NeedsSwap(graph, r)]_vars

\* Some call of spill_and_swap in the pass finds its list full: neither an
\* empty entry nor an entry for the operand.
ListExhausted ==
  \E b \in 1..Len(blocks) : \E k \in 1..Len(blocks[b].insns) :
    \/ Cardinality(SpilledReads(blocks[b].insns[k])) > ReloadCap
    \/ (IF SpilledOut(blocks[b].insns[k]) THEN 1 ELSE 0) > SpillCap

\* C19: assume_unreachable() at the end of spill_and_swap is reached only
\* when the reload or spill list is exhausted without placing the operand;
\* a call that finds an empty entry, or an entry whose src is the operand,
\* returns without reaching it.
C19_UnreachableOnlyWhenFull ==
  [][(pc # "unreachable" /\ pc' = "unreachable") => ListExhausted]_vars

\* The base register of the synthesized loads and stores.
SpillBase == from_native(abi, abi.sp)

\* The memory operand the claim expects for spill slot k.
SlotOperand(k) == Mem(mreg_of_reg(SpillBase), (k - 1) * 8)

\* The loads and the store that stand with instruction i (ns[s..]) address
\* the slots of the registers they stand for.
AddressedAt(ns, s, i) ==
  LET nr == Cardinality(SpilledReads(i))
      ni == ns[s + nr]
  IN  /\ \A q \in s..(s + nr - 1) : \A l \in 1..Len(i.arg) :
           (i.arg[l].t \in {"reg", "mem"} /\ i.arg[l].reg \in SpilledReads(i)
              /\ ni.arg[l].reg = ns[q].out)
             => ns[q].arg[1] = SlotOperand(graph[i.arg[l].reg].spill_slot)
      /\ SpilledOut(i) => ns[s + nr + 1].arg[1] = SlotOperand(graph[i.out].spill_slot)

\* C20: every load and store the spill rewriter synthesizes for a register
\* with spill slot k has as base the internal index of the ABI stack
\* pointer, a nonzero b = from_native(sp) with to_native(b) = sp, and the
\* displacement (k - 1) * 8; and every such displacement d satisfies
\* d + 8 <= used_stack_length.
C20_SpillAddressing ==
  /\ [][(RewriteDue /\ blocks' # blocks) =>
          /\ SpillBase # 0
          /\ to_native(abi, SpillBase) = abi.sp
          /\ \A b \in 1..Len(blocks) : \A k \in 1..Len(blocks[b].insns) :
               AddressedAt(blocks'[b].insns, RunStart(blocks[b].insns, k),
                           blocks[b].insns[k])]_vars
  /\ [](pc = "substitute" =>
          \A b \in 1..Len(blocks) : \A k \in 1..Len(blocks[b].insns) :
            (is_memop(blocks[b].insns[k])
               /\ blocks[b].insns[k].arg[1].reg = mreg_of_reg(SpillBase))
              => blocks[b].insns[k].arg[1].disp + 8 <= used_stack_length)


====
